---- MODULE Spec2Model ----
(***************************************************************************)
(* A model of the OPAQUE implementation (eagraf/opaque):                   *)
(*   - Configuration: verify / toInternal / Serialize / Deserialize        *)
(*   - Parameters: the six wire-message deserializers                      *)
(*   - the 3DH key exchange: Response / ServerFinalize on the server,      *)
(*     AuthenticationStart / AuthenticationFinalize on the client          *)
(*   - the key schedule, DeriveKey and the identity defaults, each run    *)
(*     on its own inputs                                                   *)
(* The specifications share the variables; each runs one part and leaves   *)
(* the others at rest.                                                     *)
(***************************************************************************)
EXTENDS Integers, Sequences, FiniteSets, TLC

VARIABLES
    \* --- configuration (SpecConf, SpecDeser)
    conf,       \* the Configuration under test
    step,       \* which operation ran last
    verr,       \* toInternal's error ("" = nil)
    ip,         \* toInternal's *Parameters: <<>> = nil, <<p>> otherwise
    encoded,    \* input of DeserializeConfiguration
    dconf,      \* DeserializeConfiguration's *Configuration: <<>> = nil
    dcerr,      \* DeserializeConfiguration's error
    \* --- message deserializers (SpecDeser)
    input,      \* the byte string handed to the deserializer
    dmsg,       \* the returned message: <<>> = nil, <<m>> otherwise
    derr,       \* the returned error ("" = nil)
    \* --- key exchange (SpecAke)
    live,       \* the logins that run
    skeys,      \* the server's long-term key pair and OPRF key
    reg,        \* the registration run: client state and messages in flight
    record,     \* the stored client record: <<>> before registration, <<r>> after
    cli,        \* per login: the client's session state and last results
    srv,        \* per login: the server's Core, Metadata and last results
    alone,      \* per login: the server state the same calls give on a private copy
    \* --- single operations on their own inputs
    sched,      \* two runs of Core.DeriveKeys: inputs and resulting Core
    dkey,       \* one call of Ciphersuite.DeriveKey: its loop state
    ident       \* one choice of identities: Metadata.Fill and the client's defaults

confVars  == <<conf, step, verr, ip, encoded, dconf, dcerr>>
deserVars == <<input, dmsg, derr>>
akeVars == <<live, skeys, reg, record, cli, srv, alone>>
fnVars == <<sched, dkey, ident>>
vars == <<confVars, deserVars, akeVars, fnVars>>

----------------------------------------------------------------------------
(* Bounds *)

\* longest input handed to a message deserializer
MaxInputLen == 430
\* calls of Response and ServerFinalize on one server session
MaxServerCalls == 3
\* calls of AuthenticationFinalize on one client
MaxClientCalls == 2
\* iterations of the loop of DeriveKey that are followed
MaxTries == 258
\* contexts of length 0..MaxCtxLen, and around BigCtxLen, are serialized
MaxCtxLen == 2
BigCtxLen == 256

----------------------------------------------------------------------------
(* Byte strings *)

Byte == 0..255

\* Go's b[lo:hi]
Slice(b, lo, hi) == SubSeq(b, lo + 1, hi)

\* a byte string of length n whose bytes tell their positions apart
Bytes(n, salt) == [i \in 1..n |-> (i * 7 + salt) % 256]

\* encoding.I2OSP(n, 2)
I2OSP2(n) == <<(n \div 256) % 256, n % 256>>

\* encoding.OS2IP on two bytes
OS2IP2(b) == b[1] * 256 + b[2]

\* encoding.EncodeVector
EncodeVector(v) == I2OSP2(Len(v)) \o v

\* encoding.Concat
Concat(a, b) == a \o b

\* encoding.DecodeVector: <<data, offset, err>>
DecodeVector(in) ==
    IF Len(in) < 2 THEN <<(<<>>), 0, "errHeaderLength">>
    ELSE LET dataLen == OS2IP2(Slice(in, 0, 2))
             offset == 2 + dataLen
         IN  IF Len(in) < offset THEN <<(<<>>), 0, "errTotalLength">>
             ELSE <<Slice(in, 2, offset), offset, "">>

----------------------------------------------------------------------------
(* Identifiers *)

\* crypto.Hash identifiers
SHA256 == 5
SHA384 == 6
SHA512 == 7

\* group identifiers
RistrettoSha512 == 1
P256Sha256 == 3
P384Sha384 == 4
P521Sha512 == 5

\* ksf identifiers
KsfIdentity == 0
Argon2id == 1
Scrypt == 2
PBKDF2 == 3

\* hash.Hashing(id).Available()
HashAvailable(id) == id \in {SHA256, SHA384, SHA512}

\* the digest size of a registered hash
HashSize(id) == CASE id = SHA256 -> 32 [] id = SHA384 -> 48 [] id = SHA512 -> 64

\* ksf.Identifier.Available()
KsfAvailable(id) == id \in {Argon2id, Scrypt, PBKDF2}

\* suiteToHash, as filled by init()
suiteToHash ==
    (RistrettoSha512 :> SHA512) @@ (P256Sha256 :> SHA256) @@
    (P384Sha384 :> SHA384) @@ (P521Sha512 :> SHA512)

\* oprf.Ciphersuite.Available
OprfAvailable(id) == id \in DOMAIN suiteToHash

\* group.Group.Available
GroupAvailable(id) == id \in {RistrettoSha512, P256Sha256, P384Sha384, P521Sha512}

\* encoding.PointLength
PointLength(g) ==
    CASE g = RistrettoSha512 -> 32 [] g = P256Sha256 -> 33
      [] g = P384Sha384 -> 49 [] g = P521Sha512 -> 67

NonceLength == 32
confLength == 6

----------------------------------------------------------------------------
(* Configuration *)

\* verify with the MAC checked before the KDF
verify_MacFirst(c) ==
    IF ~HashAvailable(c.MAC) THEN "errInvalidMACid"
    ELSE IF ~HashAvailable(c.KDF) THEN "errInvalidKDFid"
    ELSE IF ~HashAvailable(c.Hash) THEN "errInvalidHASHid"
    ELSE IF c.KSF # 0 /\ ~KsfAvailable(c.KSF) THEN "errInvalidKSFid"
    ELSE IF ~OprfAvailable(c.OPRF) THEN "errInvalidOPRFid"
    ELSE IF ~GroupAvailable(c.AKE) THEN "errInvalidAKEid"
    ELSE ""

\* Configuration.verify: the error of the first non-compliant field
verify(c) ==
    IF ~HashAvailable(c.KDF) THEN "errInvalidKDFid"
    ELSE IF ~HashAvailable(c.MAC) THEN "errInvalidMACid"
    ELSE IF ~HashAvailable(c.Hash) THEN "errInvalidHASHid"
    ELSE IF c.KSF # 0 /\ ~KsfAvailable(c.KSF) THEN "errInvalidKSFid"
    ELSE IF ~OprfAvailable(c.OPRF) THEN "errInvalidOPRFid"
    ELSE IF ~GroupAvailable(c.AKE) THEN "errInvalidAKEid"
    ELSE ""

\* Configuration.toInternal: <<parameters, err>>
toInternal(c) ==
    LET err == verify(c) IN
    IF err # "" THEN <<(<<>>), err>>
    ELSE <<(<< [ KDF |-> c.KDF, MAC |-> c.MAC, Hash |-> c.Hash, KSF |-> c.KSF,
                 NonceLen |-> NonceLength,
                 OPRFPointLength |-> PointLength(c.OPRF),
                 AkePointLength |-> PointLength(c.AKE),
                 Group |-> c.AKE, OPRF |-> c.OPRF, Context |-> c.Context,
                 EnvelopeSize |-> NonceLength + HashSize(c.MAC) ] >>), "">>

\* byte(x) of an unsigned identifier
ToByte(x) == x % 256

\* Serialize with the KDF byte written before the OPRF byte
Serialize_KdfFirst(c) ==
    Concat(<<ToByte(c.KDF), ToByte(c.OPRF), ToByte(c.MAC),
             ToByte(c.Hash), ToByte(c.KSF), ToByte(c.AKE)>>,
           EncodeVector(c.Context))

\* Configuration.Serialize
Serialize(c) ==
    Concat(<<ToByte(c.OPRF), ToByte(c.KDF), ToByte(c.MAC),
             ToByte(c.Hash), ToByte(c.KSF), ToByte(c.AKE)>>,
           EncodeVector(c.Context))

\* DeserializeConfiguration: <<configuration, err>>
DeserializeConfiguration(e) ==
    IF Len(e) < confLength + 2
    THEN <<(<<>>), "ErrConfigurationInvalidLength">>
    ELSE LET dv == DecodeVector(Slice(e, confLength, Len(e))) IN
         IF dv[3] # "" THEN <<(<<>>), "decoding the configuration context">>
         ELSE <<(<< [ OPRF |-> e[1], KDF |-> e[2], MAC |-> e[3], Hash |-> e[4],
                      KSF |-> e[5], AKE |-> e[6], Context |-> dv[1] ] >>), "">>

----------------------------------------------------------------------------
(* Message deserializers of Parameters *)

errInvalidMessageLength == "invalid message length"

\* Parameters.MAC.Size() and Parameters.Hash.Size()
MacSize(p) == HashSize(p.MAC)
HashLen(p) == HashSize(p.Hash)

\* Parameters.DeserializeRegistrationRequest
DeserializeRegistrationRequest(p, in) ==
    IF Len(in) # p.OPRFPointLength THEN <<(<<>>), errInvalidMessageLength>>
    ELSE <<(<< [Data |-> in] >>), "">>

\* DeserializeRegistrationResponse refusing only the inputs that are too short
DeserializeRegistrationResponse_AtLeast(p, in) ==
    IF Len(in) < p.OPRFPointLength + p.AkePointLength
    THEN <<(<<>>), errInvalidMessageLength>>
    ELSE <<(<< [ Data |-> Slice(in, 0, p.OPRFPointLength),
                 Pks |-> Slice(in, p.OPRFPointLength, Len(in)) ] >>), "">>

\* Parameters.DeserializeRegistrationResponse
DeserializeRegistrationResponse(p, in) ==
    IF Len(in) # p.OPRFPointLength + p.AkePointLength
    THEN <<(<<>>), errInvalidMessageLength>>
    ELSE <<(<< [ Data |-> Slice(in, 0, p.OPRFPointLength),
                 Pks |-> Slice(in, p.OPRFPointLength, Len(in)) ] >>), "">>

\* Parameters.DeserializeRegistrationRecord
DeserializeRegistrationRecord(p, in) ==
    IF Len(in) # p.AkePointLength + HashLen(p) + p.EnvelopeSize
    THEN <<(<<>>), errInvalidMessageLength>>
    ELSE <<(<< [ PublicKey |-> Slice(in, 0, p.AkePointLength),
                 MaskingKey |-> Slice(in, p.AkePointLength, p.AkePointLength + HashLen(p)),
                 Envelope |-> Slice(in, p.AkePointLength + HashLen(p), Len(in)) ] >>), "">>

\* Parameters.deserializeCredentialRequest
deserializeCredentialRequest(p, in) == [Data |-> Slice(in, 0, p.OPRFPointLength)]

\* deserializeCredentialResponse with the masked response running to the end
deserializeCredentialResponse_ToEnd(p, in, maxResponseLength) ==
    [ Data |-> Slice(in, 0, p.OPRFPointLength),
      MaskingNonce |-> Slice(in, p.OPRFPointLength, p.OPRFPointLength + p.NonceLen),
      MaskedResponse |-> Slice(in, p.OPRFPointLength + p.NonceLen, Len(in)) ]

\* Parameters.deserializeCredentialResponse
deserializeCredentialResponse(p, in, maxResponseLength) ==
    [ Data |-> Slice(in, 0, p.OPRFPointLength),
      MaskingNonce |-> Slice(in, p.OPRFPointLength, p.OPRFPointLength + p.NonceLen),
      MaskedResponse |-> Slice(in, p.OPRFPointLength + p.NonceLen, maxResponseLength) ]

\* Parameters.DeserializeKE1
DeserializeKE1(p, in) ==
    IF Len(in) # p.OPRFPointLength + p.NonceLen + p.AkePointLength
    THEN <<(<<>>), errInvalidMessageLength>>
    ELSE <<(<< [ CredentialRequest |->
                     deserializeCredentialRequest(p, Slice(in, 0, p.OPRFPointLength)),
                 NonceU |-> Slice(in, p.OPRFPointLength, p.OPRFPointLength + p.NonceLen),
                 EpkU |-> Slice(in, p.OPRFPointLength + p.NonceLen, Len(in)) ] >>), "">>

\* DeserializeKE2 refusing only the inputs that are too short
DeserializeKE2_AtLeast(p, in) ==
    LET maxResponseLength ==
            p.OPRFPointLength + p.NonceLen + p.AkePointLength + p.EnvelopeSize
    IN  IF Len(in) < maxResponseLength + p.NonceLen + p.AkePointLength + MacSize(p)
        THEN <<(<<>>), errInvalidMessageLength>>
        ELSE LET offset == maxResponseLength + p.NonceLen IN
             <<(<< [ CredentialResponse |->
                         deserializeCredentialResponse(p, in, maxResponseLength),
                     NonceS |-> Slice(in, maxResponseLength, maxResponseLength + p.NonceLen),
                     EpkS |-> Slice(in, offset, offset + p.AkePointLength),
                     Mac |-> Slice(in, offset + p.AkePointLength, Len(in)) ] >>), "">>

\* Parameters.DeserializeKE2
DeserializeKE2(p, in) ==
    LET maxResponseLength ==
            p.OPRFPointLength + p.NonceLen + p.AkePointLength + p.EnvelopeSize
    IN  IF Len(in) # maxResponseLength + p.NonceLen + p.AkePointLength + MacSize(p)
        THEN <<(<<>>), errInvalidMessageLength>>
        ELSE LET offset == maxResponseLength + p.NonceLen IN
             <<(<< [ CredentialResponse |->
                         deserializeCredentialResponse(p, in, maxResponseLength),
                     NonceS |-> Slice(in, maxResponseLength, maxResponseLength + p.NonceLen),
                     EpkS |-> Slice(in, offset, offset + p.AkePointLength),
                     Mac |-> Slice(in, offset + p.AkePointLength, Len(in)) ] >>), "">>

\* Parameters.DeserializeKE3
DeserializeKE3(p, in) ==
    IF Len(in) # MacSize(p) THEN <<(<<>>), errInvalidMessageLength>>
    ELSE <<(<< [Mac |-> in] >>), "">>

----------------------------------------------------------------------------
(* The prime-order group: the element g^x is written x, x in 1..GroupOrder-1 *)

GroupOrder == 5
Scalars == 1..(GroupOrder - 1)

\* Group.Base()
Base == 1

\* Element.Mult(scalar)
Mult(e, k) == (e * k) % GroupOrder

\* Scalar.Invert
Invert(k) == CHOOSE x \in Scalars : (x * k) % GroupOrder = 1

\* NewScalar().Decode / NewElement().Decode: the zero scalar and the identity are refused
DecodeOk(x) == x \in Scalars

----------------------------------------------------------------------------
(* Byte strings of the key exchange, as terms: a tuple led by its kind.     *)
(* Hashes, MACs and key derivations are free constructors.                  *)

Nil == <<"nil">>
Str(t) == <<"str", t>>
Nonce(n) == <<"nonce", n>>
\* Element.Bytes()
ElementBytes(e) == <<"el", e>>

\* utils.Concatenate(0, ...)
Concatenate(parts) == <<"cat", parts>>

\* hash.Hash.Hash(0, input)
HashOf(t) == <<"hash", t>>

\* hash.Hash.Hmac(message, key)
Hmac(message, key) == <<"hmac", key, message>>

\* hash.Hash.HKDFExpand(secret, info, length)
HKDFExpand(secret, hkdfLabel, length) == <<"hkdf", secret, hkdfLabel, length>>

\* hash.Hash.OutputSize()
OutputSize == 64

labelPrefix == "OPAQUE"
tagHandshake == "handshake secret"
tagSession == "session secret"
tagMacServer == "server mac"
tagMacClient == "client mac"
tagEncServer == "server enc"
AesGcmKeyLength == 32
tag3DH == "3DH"

\* lengthPrefixEncode
lengthPrefixEncode(in) == <<"lp", in>>

\* info
info(protoTag, nonceU, nonceS, idU, idS) ==
    Concatenate(<<Str(protoTag), lengthPrefixEncode(nonceU), lengthPrefixEncode(nonceS),
                  lengthPrefixEncode(idU), lengthPrefixEncode(idS)>>)

\* buildLabel: Go's labelPrefix + label
buildLabel(label) == <<labelPrefix, label>>

\* hkdfExpand
hkdfExpand(secret, hkdfLabel, length) == HKDFExpand(secret, hkdfLabel, length)

\* hkdfExpandLabel: the context parameter is not used by the code
hkdfExpandLabel(secret, context, label, length) ==
    hkdfExpand(secret, buildLabel(label), length)

\* deriveSecret
deriveSecret(secret, transcript, label) ==
    hkdfExpandLabel(secret, HashOf(transcript), label, OutputSize)

\* keySchedule: <<handshakeSecret, sessionSecret>>
keySchedule(ikm, inf) ==
    <<deriveSecret(ikm, inf, tagHandshake), deriveSecret(ikm, inf, tagSession)>>

\* macKeys: <<km2, km3>>
macKeys(handshakeSecret) ==
    <<hkdfExpandLabel(handshakeSecret, Str(""), tagMacServer, OutputSize),
      hkdfExpandLabel(handshakeSecret, Str(""), tagMacClient, OutputSize)>>

\* a Core after construction
NewCore ==
    [ NonceU |-> Nil, NonceS |-> Nil, Esk |-> 0, Epk |-> 0,
      Km2 |-> Nil, Km3 |-> Nil, Ke2 |-> Nil, SessionSecret |-> Nil,
      Transcript2 |-> Nil, Transcript3 |-> Nil ]

\* a Metadata after construction
NewMetadata ==
    [ CredReq |-> Nil, CredResp |-> Nil, IDu |-> Nil, IDs |-> Nil, Info1 |-> Nil,
      KeyLen |-> 0 ]

\* Core.DeriveKeys
DeriveKeys(c, m, tag, nonceU, nonceS, ikm) ==
    LET Scheduled(ks) ==
            LET Keyed(mk) ==
                    [c EXCEPT !.SessionSecret = ks[2],
                              !.Km2 = mk[1],
                              !.Km3 = mk[2],
                              !.Ke2 = hkdfExpandLabel(ks[1], Str(""), tagEncServer, m.KeyLen)]
            IN  Keyed(macKeys(ks[1]))
    IN  Scheduled(keySchedule(ikm, info(tag, nonceU, nonceS, m.IDu, m.IDs)))

\* Metadata.Fill
Fill(m, creds, cresp, pku) ==
    LET m1 == IF creds.mode = "CustomIdentifier"
              THEN [m EXCEPT !.IDu = creds.idu, !.IDs = creds.ids]
              ELSE m
        m2 == IF m1.IDu = Nil THEN [m1 EXCEPT !.IDu = pku] ELSE m1
        m3 == IF m2.IDs = Nil THEN [m2 EXCEPT !.IDs = creds.pks] ELSE m2
    IN  [m3 EXCEPT !.CredResp = cresp, !.KeyLen = AesGcmKeyLength]

\* AesGcmDecrypt: <<plaintext, err>>; a ciphertext opens under the key that sealed it
AesGcmDecrypt(key, ciphertext) ==
    IF ciphertext[1] = "aead" /\ ciphertext[2] = key
    THEN <<ciphertext[3], "">>
    ELSE <<Nil, "cipher: message authentication failed">>

\* DecodeKe1: <<ke1, err>>
DecodeKe1(req) ==
    IF req[1] = "ke1" THEN <<[NonceU |-> req[2], EpkU |-> req[3]], "">>
    ELSE <<[NonceU |-> Nil, EpkU |-> 0], "decoding error">>

\* decodeKe3: <<ke3, err>>
decodeKe3(req) ==
    IF req[1] = "ke3" THEN <<[Mac |-> req[2]], "">>
    ELSE <<[Mac |-> Nil], "decoding error">>

\* checkHmac
checkHmac(message, key, mac) == Hmac(message, key) = mac

ErrAkeInvalidClientMac == "invalid client mac"

\* serverK3dh with the second and third products concatenated in the other order
serverK3dh_Swapped(core, sk, epku, pku) ==
    IF ~DecodeOk(sk) THEN <<Nil, "sk : decoding error">>
    ELSE IF ~DecodeOk(epku) THEN <<Nil, "epku : decoding error">>
    ELSE IF ~DecodeOk(pku) THEN <<Nil, "pku : decoding error">>
    ELSE LET e1 == Mult(epku, core.Esk)
             e2 == Mult(epku, sk)
             e3 == Mult(pku, core.Esk)
         IN  <<Concatenate(<<ElementBytes(e1), ElementBytes(e3), ElementBytes(e2)>>), "">>

\* serverK3dh: <<ikm, err>>
serverK3dh(core, sk, epku, pku) ==
    IF ~DecodeOk(sk) THEN <<Nil, "sk : decoding error">>
    ELSE IF ~DecodeOk(epku) THEN <<Nil, "epku : decoding error">>
    ELSE IF ~DecodeOk(pku) THEN <<Nil, "pku : decoding error">>
    ELSE LET e1 == Mult(epku, core.Esk)
             e2 == Mult(epku, sk)
             e3 == Mult(pku, core.Esk)
         IN  <<Concatenate(<<ElementBytes(e1), ElementBytes(e2), ElementBytes(e3)>>), "">>

\* Response, with the values it samples: [core, ke2, err, ikm]
Response(core, m, sk, pku, req, info2, esk, nonceS) ==
    LET Sent(c3, ikm) ==
            [ core |-> c3,
              ke2 |-> <<"ke2", c3.NonceS, c3.Epk, Hmac(c3.Transcript2, c3.Km2)>>,
              err |-> "",
              ikm |-> ikm ]
        Opened(ke1, c2, ikm, dec) ==
            IF dec[2] # "" THEN [core |-> c2, ke2 |-> Nil, err |-> dec[2], ikm |-> ikm]
            ELSE Sent([c2 EXCEPT !.Transcript2 =
                          Concatenate(<<m.CredReq, ke1.NonceU, m.Info1,
                                        ElementBytes(ke1.EpkU), m.CredResp, c2.NonceS,
                                        info2, ElementBytes(c2.Epk), dec[1]>>)],
                      ikm)
        Derived(ke1, c2, ikm) ==
            Opened(ke1, c2, ikm,
                   IF info2 # Nil THEN AesGcmDecrypt(c2.Ke2, info2) ELSE <<Nil, "">>)
        Agreed(ke1, c1, k3) ==
            IF k3[2] # "" THEN [core |-> c1, ke2 |-> Nil, err |-> k3[2], ikm |-> Nil]
            ELSE Derived(ke1, DeriveKeys(c1, m, tag3DH, ke1.NonceU, c1.NonceS, k3[1]), k3[1])
        Sampled(ke1, c1) == Agreed(ke1, c1, serverK3dh(c1, sk, ke1.EpkU, pku))
        Decoded(dk) ==
            IF dk[2] # "" THEN [core |-> core, ke2 |-> Nil, err |-> dk[2], ikm |-> Nil]
            ELSE Sampled(dk[1],
                         [core EXCEPT !.Esk = esk, !.Epk = Mult(Base, esk), !.NonceS = nonceS])
    IN  Decoded(DecodeKe1(req))

\* ServerFinalize: [core, err]
ServerFinalize(core, req) ==
    LET Decoded(dk, c1) ==
            IF dk[2] # "" THEN [core |-> core, err |-> dk[2]]
            ELSE IF ~checkHmac(c1.Transcript3, c1.Km3, dk[1].Mac)
                 THEN [core |-> c1, err |-> ErrAkeInvalidClientMac]
                 ELSE [core |-> c1, err |-> ""]
    IN  Decoded(decodeKe3(req), [core EXCEPT !.Transcript3 = core.Transcript2])

----------------------------------------------------------------------------
(* OPRF, envelope and credential masking *)

Passwords == {"w1", "w2"}

\* HashToGroup(password): distinct passwords map to distinct elements
HashToGroup(pw) == CASE pw = "w1" -> 2 [] pw = "w2" -> 3
PwIndex(pw) == CASE pw = "w1" -> 1 [] pw = "w2" -> 2

\* Core.OprfStart: the blinded element r * HashToGroup(password)
OprfStart(pw, r) == Mult(HashToGroup(pw), r)

\* OPRF Evaluate: oprf_key * blinded
Evaluate(blinded, k) == Mult(blinded, k)

\* Core.OprfFinalize: <<output, err>>
OprfFinalize(pw, r, evaluated) ==
    IF ~DecodeOk(evaluated) THEN <<Nil, "finalizing OPRF : invalid element">>
    ELSE <<(<<"oprf", pw, Mult(evaluated, Invert(r))>>), "">>

\* Core.BuildPRK: the stretched OPRF output
BuildPRK(unblinded) == <<"prk", unblinded>>

\* KDF.Expand(key, info, length)
Expand(key, inf, length) == <<"expand", key, inf, length>>

\* internal.Xor: a pad applied twice cancels
Xor(pad, in) ==
    IF in[1] = "xor" /\ in[2] = pad THEN in[3] ELSE <<"xor", pad, in>>

\* the parameters of the key exchange: those of DefaultConfiguration
DefaultConfiguration ==
    [ OPRF |-> RistrettoSha512, KDF |-> SHA512, MAC |-> SHA512, Hash |-> SHA512,
      KSF |-> Scrypt, AKE |-> RistrettoSha512, Context |-> <<>> ]
AkeParameters == toInternal(DefaultConfiguration)[1][1]
MaskedResponseLen == AkeParameters.AkePointLength + AkeParameters.EnvelopeSize

\* Parameters.MaskResponse
MaskResponse(key, nonce, in) ==
    Xor(Expand(key, Concatenate(<<nonce, Str("CredentialResponsePad")>>), MaskedResponseLen),
        in)

\* Group.HashToScalar of the derivation input and its counter byte (may be zero)
HashToScalar(fp, counter) == (fp + counter) % GroupOrder

\* Ciphersuite.DeriveKey: the counter is a uint8
RECURSIVE DeriveKeyFrom(_, _)
DeriveKeyFrom(fp, counter) ==
    LET sc == HashToScalar(fp, counter) IN
    IF sc # 0 THEN sc ELSE DeriveKeyFrom(fp, (counter + 1) % 256)
DeriveKey(fp) == DeriveKeyFrom(fp, 0)

\* the derivation input of the client key: the OPRF output and the envelope nonce
SeedOf(prk, nonce) ==
    IF prk[2][1] = "oprf" /\ nonce[1] = "nonce"
    THEN PwIndex(prk[2][2]) + prk[2][3] + nonce[2]
    ELSE 0

\* the credentials an envelope authenticates
CleartextCredentials(pks, ids, idc, pkc) ==
    <<"creds", pks, IF ids = Nil THEN pks ELSE ids,
               IF idc = Nil THEN ElementBytes(pkc) ELSE idc>>

\* BuildEnvelope: [envelope, pkc, maskingKey, exportKey]
BuildEnvelope(prk, pks, idc, ids, nonce) ==
    LET Keyed(authKey, pkc) ==
            [ envelope |-> <<"env", nonce,
                             Hmac(Concatenate(<<nonce,
                                                CleartextCredentials(pks, ids, idc, pkc)>>),
                                  authKey)>>,
              pkc |-> pkc,
              maskingKey |-> Expand(prk, Concatenate(<<Str("MaskingKey")>>), OutputSize),
              exportKey |-> Expand(prk, Concatenate(<<Str("ExportKey"), nonce>>), OutputSize) ]
    IN  Keyed(Expand(prk, Concatenate(<<Str("AuthKey"), nonce>>), OutputSize),
              Mult(Base, DeriveKey(SeedOf(prk, nonce))))

\* envelope.DeserializeEnvelope: the nonce and the tag of the unmasked bytes
DeserializeEnvelope(e) ==
    IF e[1] = "env" THEN [nonce |-> e[2], tag |-> e[3]]
    ELSE [nonce |-> <<"part", e, "nonce">>, tag |-> <<"part", e, "tag">>]

ErrCredentialRecovery == "CredentialRecoveryFailed"

\* Core.RecoverSecret: [skc, pkc, exportKey, err]
RecoverSecret(idc, ids, pks, prk, env) ==
    LET Rebuilt(built) ==
            IF built.envelope[3] # env.tag
            THEN [skc |-> 0, pkc |-> 0, exportKey |-> Nil, err |-> ErrCredentialRecovery]
            ELSE [ skc |-> DeriveKey(SeedOf(prk, env.nonce)), pkc |-> built.pkc,
                   exportKey |-> built.exportKey, err |-> "" ]
    IN  Rebuilt(BuildEnvelope(prk, pks, idc, ids, env.nonce))

----------------------------------------------------------------------------
(* The client *)

\* the transcript both parties authenticate
Transcript2Of(credReq, nonceU, info1, epkU, credResp, nonceS, info2, epkS, einfo2) ==
    Concatenate(<<credReq, nonceU, info1, ElementBytes(epkU), credResp, nonceS, info2,
                  ElementBytes(epkS), einfo2>>)

\* the encoding of a credential response
EncodeCredentialResponse(data, maskingNonce, maskedResponse) ==
    <<"cresp", ElementBytes(data), maskingNonce, maskedResponse>>

\* Client.RegistrationStart
ClientRegistrationStart(pw, r) == [Data |-> OprfStart(pw, r)]

\* Client.RegistrationFinalize: [upload, exportKey, err]
ClientRegistrationFinalize(pw, r, creds, resp, nonce) ==
    LET Sealed(env) ==
            [ upload |-> << [ Envelope |-> env.envelope, MaskingKey |-> env.maskingKey,
                              Pku |-> env.pkc ] >>,
              exportKey |-> env.exportKey,
              err |-> "" ]
        Unblinded(fin) ==
            IF fin[2] # "" THEN [upload |-> <<>>, exportKey |-> Nil, err |-> fin[2]]
            ELSE Sealed(BuildEnvelope(BuildPRK(fin[1]), ElementBytes(resp.Pks),
                                      creds.idu, creds.ids, nonce))
    IN  Unblinded(OprfFinalize(pw, r, resp.Data))

\* Client.AuthenticationStart with the values it samples: the KE1
ClientAuthenticationStart(pw, r, esk, nonceU) ==
    [ CredentialRequest |-> [Data |-> OprfStart(pw, r)],
      NonceU |-> nonceU,
      EpkU |-> Mult(Base, esk) ]

ErrServerAuthentication == "ServerAuthenticationFailed"

\* element decoding of recovered bytes: 0 when they encode no element
DecodeElement(t) == IF t[1] = "el" THEN t[2] ELSE 0

\* ake.Client.Finalize: [ke3, sessionKey, ikm, err]
AkeFinalize(idc, skc, ids, pks, esk, ke1, ke2) ==
    LET Derived(pk, ikm, keys, t2) ==
            IF ~DecodeOk(pk) \/ ~DecodeOk(ke2.EpkS)
            THEN [ke3 |-> Nil, sessionKey |-> Nil, ikm |-> Nil, err |-> "decoding error"]
            ELSE IF ~checkHmac(t2, keys.Km2, ke2.Mac)
            THEN [ke3 |-> Nil, sessionKey |-> Nil, ikm |-> ikm, err |-> ErrServerAuthentication]
            ELSE [ ke3 |-> <<"ke3", Hmac(t2, keys.Km3)>>, sessionKey |-> keys.SessionSecret,
                   ikm |-> ikm, err |-> "" ]
        Agreed(pk, ikm) ==
            Derived(pk, ikm,
                    DeriveKeys(NewCore,
                               [NewMetadata EXCEPT !.IDu = idc, !.IDs = ids,
                                                   !.KeyLen = AesGcmKeyLength],
                               tag3DH, ke1.NonceU, ke2.NonceS, ikm),
                    Transcript2Of(ElementBytes(ke1.CredentialRequest.Data), ke1.NonceU, Nil,
                                  ke1.EpkU,
                                  EncodeCredentialResponse(ke2.Data, ke2.MaskingNonce,
                                                           ke2.MaskedResponse),
                                  ke2.NonceS, Nil, ke2.EpkS, Nil))
        Decoded(pk) ==
            Agreed(pk, Concatenate(<<ElementBytes(Mult(ke2.EpkS, esk)),
                                     ElementBytes(Mult(pk, esk)),
                                     ElementBytes(Mult(ke2.EpkS, skc))>>))
    IN  Decoded(DecodeElement(pks))

\* the identities AuthenticationFinalize hands to the key exchange
ClientIdentities(idc, ids, pkc, pks) ==
    [ Idc |-> IF idc = Nil THEN pkc ELSE idc,
      Ids |-> IF ids = Nil THEN pks ELSE ids ]

\* AuthenticationFinalize going on to the key exchange when the recovery failed
ClientAuthenticationFinalize_IgnoreRecovery(c, idc, ids, ke2) ==
    LET failed(err) == [ ke3 |-> Nil, exportKey |-> Nil, sessionKey |-> Nil,
                         ikm |-> Nil, err |-> err ]
        Finalized(rec, ake) ==
            IF ake.err # "" THEN [failed(ake.err) EXCEPT !.ikm = ake.ikm]
            ELSE [ ke3 |-> ake.ke3, exportKey |-> rec.exportKey,
                   sessionKey |-> ake.sessionKey, ikm |-> ake.ikm, err |-> "" ]
        Recovered(pks, rec) ==
            Finalized(rec,
                           AkeFinalize(ClientIdentities(idc, ids, ElementBytes(rec.pkc), pks).Idc,
                                       rec.skc,
                                       ClientIdentities(idc, ids, ElementBytes(rec.pkc), pks).Ids,
                                       pks, c.esk, c.ke1, ke2))
        Split(prk, pks, e) ==
            Recovered(pks, RecoverSecret(idc, ids, pks, prk, DeserializeEnvelope(e)))
        Unmasked(prk, clear) ==
            Split(prk,
                  IF clear[1] = "cat" THEN clear[2][1] ELSE <<"part", clear, "pks">>,
                  IF clear[1] = "cat" THEN clear[2][2] ELSE <<"part", clear, "envelope">>)
        Stretched(prk) ==
            Unmasked(prk,
                     Xor(Expand(Expand(prk, Concatenate(<<Str("MaskingKey")>>), OutputSize),
                                Concatenate(<<ke2.MaskingNonce, Str("CredentialResponsePad")>>),
                                MaskedResponseLen),
                         ke2.MaskedResponse))
        Unblinded(fin) ==
            IF fin[2] # "" THEN failed(fin[2]) ELSE Stretched(BuildPRK(fin[1]))
    IN  IF ke2.mrLen # MaskedResponseLen
        THEN failed("masking response is of invalid length for this mode")
        ELSE Unblinded(OprfFinalize(c.pw, c.blind, ke2.Data))

\* Client.AuthenticationFinalize: [ke3, exportKey, sessionKey, ikm, err]
ClientAuthenticationFinalize(c, idc, ids, ke2) ==
    LET failed(err) == [ ke3 |-> Nil, exportKey |-> Nil, sessionKey |-> Nil,
                         ikm |-> Nil, err |-> err ]
        Finalized(rec, ake) ==
            IF ake.err # "" THEN [failed(ake.err) EXCEPT !.ikm = ake.ikm]
            ELSE [ ke3 |-> ake.ke3, exportKey |-> rec.exportKey,
                   sessionKey |-> ake.sessionKey, ikm |-> ake.ikm, err |-> "" ]
        Recovered(pks, rec) ==
            IF rec.err # "" THEN failed(rec.err)
            ELSE Finalized(rec,
                           AkeFinalize(ClientIdentities(idc, ids, ElementBytes(rec.pkc), pks).Idc,
                                       rec.skc,
                                       ClientIdentities(idc, ids, ElementBytes(rec.pkc), pks).Ids,
                                       pks, c.esk, c.ke1, ke2))
        Split(prk, pks, e) ==
            Recovered(pks, RecoverSecret(idc, ids, pks, prk, DeserializeEnvelope(e)))
        Unmasked(prk, clear) ==
            Split(prk,
                  IF clear[1] = "cat" THEN clear[2][1] ELSE <<"part", clear, "pks">>,
                  IF clear[1] = "cat" THEN clear[2][2] ELSE <<"part", clear, "envelope">>)
        Stretched(prk) ==
            Unmasked(prk,
                     Xor(Expand(Expand(prk, Concatenate(<<Str("MaskingKey")>>), OutputSize),
                                Concatenate(<<ke2.MaskingNonce, Str("CredentialResponsePad")>>),
                                MaskedResponseLen),
                         ke2.MaskedResponse))
        Unblinded(fin) ==
            IF fin[2] # "" THEN failed(fin[2]) ELSE Stretched(BuildPRK(fin[1]))
    IN  IF ke2.mrLen # MaskedResponseLen
        THEN failed("masking response is of invalid length for this mode")
        ELSE Unblinded(OprfFinalize(c.pw, c.blind, ke2.Data))

----------------------------------------------------------------------------
(* The server *)

\* the server's RegistrationResponse
ServerRegistrationResponse(req, oprfKey, pks) ==
    [Data |-> Evaluate(req.Data, oprfKey), Pks |-> pks]

\* the server's answer to a KE1: credential response, Metadata.Fill, Response.
\* [core, meta, ke2, err, ikm]
ServerAuthenticationInit(core, keys, rec, creds, ke1, req, info2, esk, nonceS, maskingNonce) ==
    LET Answered(evaluated, masked, m, r) ==
            [ core |-> r.core, meta |-> m, err |-> r.err, ikm |-> r.ikm,
              ke2 |-> IF r.err # "" THEN <<>>
                      ELSE << [ Data |-> evaluated, MaskingNonce |-> maskingNonce,
                                MaskedResponse |-> masked, mrLen |-> MaskedResponseLen,
                                NonceS |-> r.ke2[2], EpkS |-> r.ke2[3], Mac |-> r.ke2[4] ] >> ]
        Filled(evaluated, masked, m) ==
            Answered(evaluated, masked, m,
                     Response(core, m, keys.sks, rec.Pku, req, info2, esk, nonceS))
        Masked(evaluated, masked) ==
            Filled(evaluated, masked,
                   Fill([NewMetadata EXCEPT !.CredReq = ElementBytes(ke1.CredentialRequest.Data)],
                        [creds EXCEPT !.pks = ElementBytes(keys.pks)],
                        EncodeCredentialResponse(evaluated, maskingNonce, masked),
                        ElementBytes(rec.Pku)))
    IN  Masked(Evaluate(ke1.CredentialRequest.Data, keys.oprfKey),
               MaskResponse(rec.MaskingKey, maskingNonce,
                            Concatenate(<<ElementBytes(keys.pks), rec.Envelope>>)))

----------------------------------------------------------------------------
(* Session states of the key exchange *)

Sessions == {1, 2}

\* the values the samplers return
ServerSks == {2}
OprfKeys == {3}
RegBlinds == {3}
Blinds == {2}
ClientEsks == {3}
ServerEsks == {2, 4}

NoIdentity == [mode |-> "Base", idu |-> Nil, ids |-> Nil, pks |-> Nil]
CredentialChoices ==
    { NoIdentity,
      [mode |-> "CustomIdentifier", idu |-> <<"id", "alice">>, ids |-> Nil, pks |-> Nil] }

NoKE1 == [CredentialRequest |-> [Data |-> 0], NonceU |-> Nil, EpkU |-> 0]

\* a Client after construction
NewClient ==
    [ phase |-> "idle", pw |-> "", blind |-> 0, esk |-> 0, ke1 |-> NoKE1,
      idc |-> Nil, ids |-> Nil, given |-> "none", seen |-> <<>>,
      ke3 |-> Nil, exportKey |-> Nil, sessionKey |-> Nil, ikm |-> Nil, err |-> "",
      calls |-> 0, failed |-> FALSE, okAfterFail |-> FALSE ]

\* a server session after construction. resp is the result of the last Response;
\* fin and finreq are the result and the input of the last ServerFinalize since
\* the last KE2 was sent ("none": not called), and finOn is what resp was when
\* it was called; ke2 is the last KE2 sent; failed and okAfterFail record an
\* error returned, and a success returned after it.
NewSession ==
    [ core |-> NewCore, meta |-> NewMetadata, resp |-> "none", fin |-> "none",
      finreq |-> Nil, finOn |-> "none", ke2 |-> <<>>, ikm |-> Nil, calls |-> 0, failed |-> FALSE, okAfterFail |-> FALSE ]

NewRegistration ==
    [ phase |-> "idle", pw |-> "", blind |-> 0, creds |-> NoIdentity,
      request |-> [Data |-> 0], response |-> [Data |-> 0, Pks |-> 0],
      upload |-> <<>>, exportKey |-> Nil ]

\* the key exchange at rest, in the specifications that do not run it
AkeIdle ==
    /\ live = {}
    /\ skeys = [sks |-> 2, pks |-> Mult(Base, 2), oprfKey |-> 3]
    /\ reg = NewRegistration
    /\ record = <<>>
    /\ cli = [i \in Sessions |-> NewClient]
    /\ srv = [i \in Sessions |-> NewSession]
    /\ alone = [keys |-> skeys, rec |-> <<>>, s |-> [i \in Sessions |-> NewSession]]

\* the single operations at rest, in the specifications that do not run them
FnIdle ==
    /\ sched = <<>>
    /\ dkey = <<>>
    /\ ident = <<>>

----------------------------------------------------------------------------
(* Inputs *)

\* identifiers tried for the hash fields: registered, unregistered, wider than a byte
HashIds == {SHA512, 0}
WideHashIds == {SHA512, 0, 256 + SHA256}
KsfIds == {KsfIdentity, Scrypt, 9}
GroupIds == {RistrettoSha512, 2}
CtxLens == (0..MaxCtxLen) \cup {BigCtxLen}

\* the configurations handed to verify / toInternal / Serialize
Configurations ==
    [ OPRF : GroupIds, KDF : WideHashIds, MAC : HashIds, Hash : HashIds,
      KSF : KsfIds, AKE : GroupIds, Context : {Bytes(n, 1) : n \in CtxLens} ]

\* the valid configurations under which messages are deserialized
Groups == {RistrettoSha512, P256Sha256, P384Sha384, P521Sha512}
MessageConfigurations ==
    [ OPRF : Groups, KDF : {SHA512}, MAC : {SHA256, SHA512}, Hash : {SHA256, SHA512},
      KSF : {Scrypt}, AKE : Groups, Context : {<<>>} ]

----------------------------------------------------------------------------
(* SpecConf: one Configuration, verified, serialized and deserialized *)

InitConf ==
    /\ conf \in Configurations
    /\ step = "init"
    /\ verr = ""
    /\ ip = <<>>
    /\ encoded = <<>>
    /\ dconf = <<>>
    /\ dcerr = ""
    /\ input = <<>>
    /\ dmsg = <<>>
    /\ derr = ""
    /\ AkeIdle
    /\ FnIdle

\* c.toInternal()
ToInternal ==
    /\ step' = "toInternal"
    /\ ip' = toInternal(conf)[1]
    /\ verr' = toInternal(conf)[2]
    /\ UNCHANGED <<fnVars, conf, encoded, dconf, dcerr, deserVars, akeVars>>

\* c.Serialize()
SerializeConfiguration ==
    /\ step' = "Serialize"
    /\ encoded' = Serialize(conf)
    /\ UNCHANGED <<fnVars, conf, verr, ip, dconf, dcerr, deserVars, akeVars>>

\* the truncations tried: the short ones, and the last byte cut off or not
PrefixLens(e) ==
    {k \in 0..Len(e) : k <= confLength + 2 + MaxCtxLen \/ k >= Len(e) - 1}

\* DeserializeConfiguration on the first k bytes of the serialization
DeserializeConfigurationPrefix ==
    /\ step \in {"Serialize", "DeserializeConfiguration"}
    /\ \E k \in PrefixLens(encoded) :
          /\ input' = Slice(encoded, 0, k)
          /\ dconf' = DeserializeConfiguration(input')[1]
          /\ dcerr' = DeserializeConfiguration(input')[2]
    /\ step' = "DeserializeConfiguration"
    /\ UNCHANGED <<fnVars, conf, verr, ip, encoded, dmsg, derr, akeVars>>

NextConf == ToInternal \/ SerializeConfiguration \/ DeserializeConfigurationPrefix

SpecConf == InitConf /\ [][NextConf]_vars

----------------------------------------------------------------------------
(* SpecDeser: one input handed to the deserializers of one Parameters *)

InitDeser ==
    /\ conf \in MessageConfigurations
    /\ step = "init"
    /\ verr = toInternal(conf)[2]
    /\ ip = toInternal(conf)[1]
    /\ encoded = <<>>
    /\ dconf = <<>>
    /\ dcerr = ""
    /\ input \in {Bytes(n, 0) : n \in 0..MaxInputLen}
    /\ dmsg = <<>>
    /\ derr = ""
    /\ AkeIdle
    /\ FnIdle

Returned(name, r) ==
    /\ step' = name
    /\ dmsg' = r[1]
    /\ derr' = r[2]
    /\ UNCHANGED <<fnVars, conf, verr, ip, encoded, dconf, dcerr, input, akeVars>>

CallDeserializeRegistrationRequest ==
    Returned("DeserializeRegistrationRequest", DeserializeRegistrationRequest(ip[1], input))

CallDeserializeRegistrationResponse ==
    Returned("DeserializeRegistrationResponse", DeserializeRegistrationResponse(ip[1], input))

CallDeserializeRegistrationRecord ==
    Returned("DeserializeRegistrationRecord", DeserializeRegistrationRecord(ip[1], input))

CallDeserializeKE1 ==
    Returned("DeserializeKE1", DeserializeKE1(ip[1], input))

CallDeserializeKE2 ==
    Returned("DeserializeKE2", DeserializeKE2(ip[1], input))

CallDeserializeKE3 ==
    Returned("DeserializeKE3", DeserializeKE3(ip[1], input))

NextDeser ==
    \/ CallDeserializeRegistrationRequest
    \/ CallDeserializeRegistrationResponse
    \/ CallDeserializeRegistrationRecord
    \/ CallDeserializeKE1
    \/ CallDeserializeKE2
    \/ CallDeserializeKE3

SpecDeser == InitDeser /\ [][NextDeser]_vars

----------------------------------------------------------------------------
(* Wire layouts, as tabulated for the protocol *)

Deserializers ==
    { "DeserializeRegistrationRequest", "DeserializeRegistrationResponse",
      "DeserializeRegistrationRecord", "DeserializeKE1", "DeserializeKE2",
      "DeserializeKE3" }

NpOprf(c) == PointLength(c.OPRF)
NpAke(c) == PointLength(c.AKE)
Nh(c) == HashSize(c.Hash)
Nm(c) == HashSize(c.MAC)
Nn == NonceLength
Ne(c) == Nn + Nm(c)

\* the field lengths of each message, in layout order
LayoutOf(d, c) ==
    CASE d = "DeserializeRegistrationRequest" -> <<NpOprf(c)>>
      [] d = "DeserializeRegistrationResponse" -> <<NpOprf(c), NpAke(c)>>
      [] d = "DeserializeRegistrationRecord" -> <<NpAke(c), Nh(c), Ne(c)>>
      [] d = "DeserializeKE1" -> <<NpOprf(c), Nn, NpAke(c)>>
      [] d = "DeserializeKE2" -> <<NpOprf(c), Nn, NpAke(c) + Ne(c), Nn, NpAke(c), Nm(c)>>
      [] d = "DeserializeKE3" -> <<Nm(c)>>

RECURSIVE SumSeq(_)
SumSeq(q) == IF q = <<>> THEN 0 ELSE Head(q) + SumSeq(Tail(q))

RECURSIVE Flatten(_)
Flatten(q) == IF q = <<>> THEN <<>> ELSE Head(q) \o Flatten(Tail(q))

LayoutLen(d, c) == SumSeq(LayoutOf(d, c))

\* the fields of a returned message, in layout order
FieldsOf(d, m) ==
    CASE d = "DeserializeRegistrationRequest" -> <<m.Data>>
      [] d = "DeserializeRegistrationResponse" -> <<m.Data, m.Pks>>
      [] d = "DeserializeRegistrationRecord" -> <<m.PublicKey, m.MaskingKey, m.Envelope>>
      [] d = "DeserializeKE1" -> <<m.CredentialRequest.Data, m.NonceU, m.EpkU>>
      [] d = "DeserializeKE2" ->
            <<m.CredentialResponse.Data, m.CredentialResponse.MaskingNonce,
              m.CredentialResponse.MaskedResponse, m.NonceS, m.EpkS, m.Mac>>
      [] d = "DeserializeKE3" -> <<m.Mac>>

----------------------------------------------------------------------------
(* Claims on the message deserializers (SpecDeser) *)

\* C1: every message deserializer returns a message exactly when the input has
\* the length of its wire layout; for any other length it returns the
\* invalid-message-length error and a nil message.
C1_ExactLength ==
    step \in Deserializers =>
        IF Len(input) = LayoutLen(step, conf)
        THEN dmsg # <<>> /\ derr = ""
        ELSE dmsg = <<>> /\ derr = errInvalidMessageLength

\* a KE2 one byte too long has been refused
C1_Witness ==
    /\ step = "DeserializeKE2"
    /\ Len(input) = LayoutLen("DeserializeKE2", conf) + 1
    /\ dmsg = <<>>
    /\ derr = errInvalidMessageLength

\* the input has the length of a RegistrationResponse laid out under configuration a
LaidOutUnder(a) == Len(input) = LayoutLen("DeserializeRegistrationResponse", a)

\* C9 as claimed: a RegistrationResponse laid out under a configuration whose OPRF
\* or AKE point length differs from the receiver's is rejected with the
\* invalid-message-length error.
C9_Original ==
    step = "DeserializeRegistrationResponse" =>
        \A a \in MessageConfigurations :
            (LaidOutUnder(a) /\ (NpOprf(a) # NpOprf(conf) \/ NpAke(a) # NpAke(conf)))
                => (dmsg = <<>> /\ derr = errInvalidMessageLength)

\* C9, amended: a RegistrationResponse laid out under a configuration whose
\* OPRF and AKE point lengths sum to another total than the receiver's is
\* rejected with the invalid-message-length error and no message; one whose
\* total is the same is accepted and split at the receiver's OPRF point length.
C9_CrossSuite ==
    step = "DeserializeRegistrationResponse" =>
        \A a \in MessageConfigurations :
            LaidOutUnder(a) =>
                IF NpOprf(a) + NpAke(a) # NpOprf(conf) + NpAke(conf)
                THEN dmsg = <<>> /\ derr = errInvalidMessageLength
                ELSE /\ dmsg # <<>>
                     /\ Len(dmsg[1].Data) = NpOprf(conf)
                     /\ Len(dmsg[1].Pks) = NpAke(conf)

\* a P-256 response (33 + 33) has been refused by a Ristretto255 receiver (32 + 32)
C9_Witness ==
    /\ step = "DeserializeRegistrationResponse"
    /\ conf.OPRF = RistrettoSha512 /\ conf.AKE = RistrettoSha512
    /\ \E a \in MessageConfigurations :
          a.OPRF = P256Sha256 /\ a.AKE = P256Sha256 /\ LaidOutUnder(a)
    /\ dmsg = <<>>
    /\ derr = errInvalidMessageLength

\* C10: the fields of every accepted message, concatenated in layout order, are
\* the input, and each field has the length of its table entry.
C10_Partition ==
    (step \in Deserializers /\ dmsg # <<>>) =>
        LET f == FieldsOf(step, dmsg[1])
            l == LayoutOf(step, conf)
        IN  /\ Len(f) = Len(l)
            /\ \A i \in 1..Len(f) : Len(f[i]) = l[i]
            /\ Flatten(f) = input

\* a KE2 has been accepted under a configuration whose lengths all differ
C10_Witness ==
    /\ step = "DeserializeKE2"
    /\ dmsg # <<>>
    /\ conf.OPRF = P256Sha256 /\ conf.AKE = P521Sha512 /\ conf.MAC = SHA256

----------------------------------------------------------------------------
(* Claims on the Configuration (SpecConf) *)

ConfFields == <<"KDF", "MAC", "Hash", "KSF", "OPRF", "AKE">>

\* the registry of identifiers
Registered(f, c) ==
    CASE f = "KDF" -> c.KDF \in {SHA256, SHA384, SHA512}
      [] f = "MAC" -> c.MAC \in {SHA256, SHA384, SHA512}
      [] f = "Hash" -> c.Hash \in {SHA256, SHA384, SHA512}
      [] f = "KSF" -> c.KSF \in {KsfIdentity, Argon2id, Scrypt, PBKDF2}
      [] f = "OPRF" -> c.OPRF \in {RistrettoSha512, P256Sha256, P384Sha384, P521Sha512}
      [] f = "AKE" -> c.AKE \in {RistrettoSha512, P256Sha256, P384Sha384, P521Sha512}

ErrorOf(f) ==
    CASE f = "KDF" -> "errInvalidKDFid" [] f = "MAC" -> "errInvalidMACid"
      [] f = "Hash" -> "errInvalidHASHid" [] f = "KSF" -> "errInvalidKSFid"
      [] f = "OPRF" -> "errInvalidOPRFid" [] f = "AKE" -> "errInvalidAKEid"

\* C7: toInternal returns Parameters only when all six identifiers are
\* registered; otherwise it returns nil Parameters and the error of the first
\* unregistered field in the order KDF, MAC, Hash, KSF, OPRF, AKE.
C7_Validation ==
    step = "toInternal" =>
        LET bad == {i \in 1..6 : ~Registered(ConfFields[i], conf)} IN
        IF bad = {}
        THEN ip # <<>> /\ verr = ""
        ELSE /\ ip = <<>>
             /\ \E i \in bad : (\A j \in bad : i <= j) /\ verr = ErrorOf(ConfFields[i])

\* a configuration with an unregistered MAC and an unregistered AKE group was refused
C7_Witness ==
    /\ step = "toInternal"
    /\ Registered("KDF", conf) /\ ~Registered("MAC", conf) /\ ~Registered("AKE", conf)
    /\ ip = <<>>
    /\ verr = "errInvalidMACid"

FitsInByte(c) ==
    /\ \A x \in {c.OPRF, c.KDF, c.MAC, c.Hash, c.KSF, c.AKE} : x \in Byte
    /\ Len(c.Context) <= 65535

\* C8: for a Configuration whose identifiers fit in a byte, Serialize gives the
\* six identifier bytes in the order OPRF, KDF, MAC, Hash, KSF, AKE followed by
\* the context behind its 2-byte length, DeserializeConfiguration of it returns
\* the same Configuration, and every input shorter than 8 bytes is refused with
\* the configuration-length error.
C8_RoundTrip ==
    /\ (encoded # <<>> /\ FitsInByte(conf)) =>
            encoded = <<conf.OPRF, conf.KDF, conf.MAC, conf.Hash, conf.KSF, conf.AKE,
                        Len(conf.Context) \div 256, Len(conf.Context) % 256>>
                      \o conf.Context
    /\ (step = "DeserializeConfiguration" /\ input = encoded /\ FitsInByte(conf)) =>
            (dcerr = "" /\ dconf = <<conf>>)
    /\ (step = "DeserializeConfiguration" /\ Len(input) < 8) =>
            (dcerr = "ErrConfigurationInvalidLength" /\ dconf = <<>>)

\* a configuration with a context of more than 255 bytes came back the same
C8_Witness ==
    /\ step = "DeserializeConfiguration"
    /\ input = encoded
    /\ Len(conf.Context) >= BigCtxLen
    /\ dconf = <<conf>>

----------------------------------------------------------------------------
(* SpecAke: one registration, then the logins of Sessions against its record *)

\* A single login is driven with every input; two concurrent logins with the
\* inputs that decide acceptance, and one call less of each operation.
Wide == Cardinality(live) = 1
RegistrationPasswords == IF Wide THEN Passwords ELSE {"w1"}
RegistrationCredentials == IF Wide THEN CredentialChoices ELSE {NoIdentity}
ServerCallCap == IF Wide THEN MaxServerCalls ELSE MaxServerCalls - 1
ClientCallCap == IF Wide THEN MaxClientCalls ELSE MaxClientCalls - 1

InitLogins(l) ==
    /\ live = l
    /\ conf = DefaultConfiguration
    /\ step = "init"
    /\ verr = ""
    /\ ip = toInternal(conf)[1]
    /\ encoded = <<>>
    /\ dconf = <<>>
    /\ dcerr = ""
    /\ input = <<>>
    /\ dmsg = <<>>
    /\ derr = ""
    /\ skeys \in {[sks |-> k, pks |-> Mult(Base, k), oprfKey |-> o] :
                    k \in ServerSks, o \in OprfKeys}
    /\ reg = NewRegistration
    /\ record = <<>>
    /\ cli = [i \in Sessions |-> NewClient]
    /\ srv = [i \in Sessions |-> NewSession]
    /\ alone = [keys |-> skeys, rec |-> <<>>, s |-> [i \in Sessions |-> NewSession]]
    /\ FnIdle

InitAke == InitLogins({1})
InitAkePair == InitLogins(Sessions)

\* the client starts the registration of a password
RegistrationStart ==
    /\ reg.phase = "idle"
    /\ \E pw \in RegistrationPasswords, r \in RegBlinds, cr \in RegistrationCredentials :
          reg' = [reg EXCEPT !.phase = "requested", !.pw = pw, !.blind = r, !.creds = cr,
                             !.request = ClientRegistrationStart(pw, r)]
    /\ UNCHANGED <<fnVars, confVars, deserVars, live, skeys, record, cli, srv, alone>>

\* the server answers the registration request
RegistrationResponse ==
    /\ reg.phase = "requested"
    /\ reg' = [reg EXCEPT !.phase = "responded",
                          !.response = ServerRegistrationResponse(reg.request, skeys.oprfKey,
                                                                  skeys.pks)]
    /\ UNCHANGED <<fnVars, confVars, deserVars, live, skeys, record, cli, srv, alone>>

\* the client builds its envelope
RegistrationFinalize ==
    /\ reg.phase = "responded"
    /\ LET Finalized(r) ==
               reg' = [reg EXCEPT !.phase = "finalized", !.upload = r.upload,
                                  !.exportKey = r.exportKey]
       IN  Finalized(ClientRegistrationFinalize(reg.pw, reg.blind, reg.creds, reg.response,
                                                Nonce(0)))
    /\ UNCHANGED <<fnVars, confVars, deserVars, live, skeys, record, cli, srv, alone>>

\* the server stores the uploaded record with the client's identities
RegistrationStore ==
    /\ reg.phase = "finalized"
    /\ reg.upload # <<>>
    /\ reg' = [reg EXCEPT !.phase = "stored"]
    /\ record' = << [ Envelope |-> reg.upload[1].Envelope,
                      MaskingKey |-> reg.upload[1].MaskingKey,
                      Pku |-> reg.upload[1].Pku,
                      creds |-> reg.creds ] >>
    /\ alone' = [alone EXCEPT !.rec = record']
    /\ UNCHANGED <<fnVars, confVars, deserVars, live, skeys, cli, srv>>

\* Client.AuthenticationStart of login i
AuthenticationStart(i) ==
    /\ record # <<>>
    /\ cli[i].phase = "idle"
    /\ \E pw \in Passwords, r \in Blinds, esk \in ClientEsks :
          cli' = [cli EXCEPT ![i] =
                    [@ EXCEPT !.phase = "started", !.pw = pw, !.blind = r, !.esk = esk,
                              !.ke1 = ClientAuthenticationStart(pw, r, esk, Nonce(i))]]
    /\ UNCHANGED <<fnVars, confVars, deserVars, live, skeys, reg, record, srv, alone>>

\* every login handed the Core of login 1
CoreOf_Shared(s, i) == s[1].core

\* the Core the caller hands to Response and ServerFinalize for login i
CoreOf(s, i) == s[i].core

\* the server session after answering a KE1
ResponseStep(s, core, keys, rec, ke1, req, info2, esk, nonceS, maskingNonce) ==
    LET Answered(r) ==
            [s EXCEPT !.core = r.core,
                      !.meta = r.meta,
                      !.resp = r.err,
                      !.fin = IF r.err = "" THEN "none" ELSE @,
                      !.finreq = IF r.err = "" THEN Nil ELSE @,
                      !.finOn = IF r.err = "" THEN "none" ELSE @,
                      !.ke2 = IF r.err = "" THEN r.ke2 ELSE @,
                      !.ikm = IF r.err = "" THEN r.ikm ELSE @,
                      !.calls = @ + 1,
                      !.failed = @ \/ r.err # ""]
    IN  Answered(ServerAuthenticationInit(core, keys, rec, rec.creds, ke1, req, info2, esk,
                                          nonceS, maskingNonce))

\* the server session after checking a KE3
FinalizeStep(s, core, req) ==
    LET Checked(r) ==
            [s EXCEPT !.core = r.core,
                      !.fin = r.err,
                      !.finreq = req,
                      !.finOn = s.resp,
                      !.calls = @ + 1,
                      !.okAfterFail = @ \/ (s.failed /\ r.err = ""),
                      !.failed = @ \/ r.err # ""]
    IN  Checked(ServerFinalize(core, req))

\* the KE1 of login i as it reaches the server
KE1Variants == IF Wide THEN {"genuine", "bad epk", "undecodable"} ELSE {"genuine", "bad epk"}
Info2Values == IF Wide THEN {Nil, <<"junk">>} ELSE {Nil}
KE1Received(i, v) ==
    IF v = "bad epk" THEN [cli[i].ke1 EXCEPT !.EpkU = 0] ELSE cli[i].ke1
KE1Encoded(ke1, v) ==
    IF v = "undecodable" THEN <<"garbage">> ELSE <<"ke1", ke1.NonceU, ke1.EpkU>>

\* the server's Response of login i
AuthenticationResponse(i) ==
    /\ record # <<>>
    /\ cli[i].phase # "idle"
    /\ srv[i].calls < ServerCallCap
    /\ \E v \in KE1Variants, info2 \in Info2Values, esk \in ServerEsks :
          LET ke1 == KE1Received(i, v)
              req == KE1Encoded(ke1, v)
          IN  /\ srv' = [srv EXCEPT ![i] =
                            ResponseStep(srv[i], CoreOf(srv, i), skeys, record[1], ke1, req,
                                         info2, esk, Nonce(10 + i), Nonce(20 + i))]
              /\ alone' = [alone EXCEPT !.s[i] =
                            ResponseStep(alone.s[i], alone.s[i].core, alone.keys, alone.rec[1],
                                         ke1, req, info2, esk, Nonce(10 + i), Nonce(20 + i))]
    /\ UNCHANGED <<fnVars, confVars, deserVars, live, skeys, reg, record, cli>>

\* the KE2 of login i as it reaches the client
KE2Variants == IF Wide THEN {"genuine", "tampered mac", "truncated"} ELSE {"genuine"}
LoginIdentities == IF Wide THEN {cr.idu : cr \in CredentialChoices} ELSE {Nil}
KE2Received(i, v) ==
    LET m == srv[i].ke2[1] IN
    CASE v = "genuine" -> m
      [] v = "tampered mac" -> [m EXCEPT !.Mac = <<"flipped", m.Mac>>]
      [] v = "truncated" -> [m EXCEPT !.mrLen = m.mrLen - 1]

\* Client.AuthenticationFinalize of login i
AuthenticationFinalize(i) ==
    /\ cli[i].phase # "idle"
    /\ srv[i].ke2 # <<>>
    /\ cli[i].calls < ClientCallCap
    /\ \E v \in KE2Variants, idc \in LoginIdentities :
          LET Finalized(r) ==
                  cli' = [cli EXCEPT ![i] =
                            [@ EXCEPT !.phase = "finalized", !.idc = idc, !.ids = Nil,
                                      !.given = v, !.seen = srv[i].ke2,
                                      !.ke3 = r.ke3, !.exportKey = r.exportKey,
                                      !.sessionKey = IF r.err = "" THEN r.sessionKey ELSE @,
                                      !.ikm = r.ikm, !.err = r.err,
                                      !.calls = @ + 1,
                                      !.okAfterFail = @ \/ (cli[i].failed /\ r.err = ""),
                                      !.failed = @ \/ r.err # ""]]
          IN  Finalized(ClientAuthenticationFinalize(cli[i], idc, Nil, KE2Received(i, v)))
    /\ UNCHANGED <<fnVars, confVars, deserVars, live, skeys, reg, record, srv, alone>>

\* the KE3 messages that may reach the server of login i: the client's, if it
\* produced one, and those anyone can make without the keys
KE3Candidates(i) ==
    {cli[i].ke3 : x \in {j \in {i} : cli[i].ke3 # Nil}}
        \cup {<<"ke3", <<"zero">>>>}
        \cup (IF Wide THEN {<<"ke3", Hmac(Nil, Nil)>>, <<"garbage">>} ELSE {})

\* the server's ServerFinalize of login i
AuthenticationServerFinalize(i) ==
    /\ record # <<>>
    /\ srv[i].calls < ServerCallCap
    /\ \E req \in KE3Candidates(i) :
          /\ srv' = [srv EXCEPT ![i] = FinalizeStep(srv[i], CoreOf(srv, i), req)]
          /\ alone' = [alone EXCEPT !.s[i] = FinalizeStep(alone.s[i], alone.s[i].core, req)]
    /\ UNCHANGED <<fnVars, confVars, deserVars, live, skeys, reg, record, cli>>

NextAke ==
    \/ RegistrationStart
    \/ RegistrationResponse
    \/ RegistrationFinalize
    \/ RegistrationStore
    \/ \E i \in live : AuthenticationStart(i)
    \/ \E i \in live : AuthenticationResponse(i)
    \/ \E i \in live : AuthenticationFinalize(i)
    \/ \E i \in live : AuthenticationServerFinalize(i)

SpecAke == InitAke /\ [][NextAke]_vars
SpecAkePair == InitAkePair /\ [][NextAke]_vars

----------------------------------------------------------------------------
(* Claims on the key exchange (SpecAke, SpecAkePair) *)

\* login i ran in protocol order with honest delivery: the client registered,
\* logs in with the registered password and identities, and has finalized the
\* KE2 that the server's last, successful Response sent
HonestRun(i) ==
    /\ reg.phase = "stored"
    /\ cli[i].phase = "finalized"
    /\ cli[i].pw = reg.pw
    /\ cli[i].idc = reg.creds.idu
    /\ cli[i].ids = reg.creds.ids
    /\ srv[i].resp = ""
    /\ cli[i].given = "genuine"
    /\ cli[i].seen = srv[i].ke2

\* C2: a login with the registered password and identities ends without error
\* on the client, the server accepts the client's KE3, both hold the same
\* session key, and both fed the same 3DH input to the key schedule.
C2_SameSessionKey ==
    \A i \in live :
        HonestRun(i) =>
            /\ cli[i].err = ""
            /\ cli[i].ke3 # Nil
            /\ cli[i].ikm = srv[i].ikm
            /\ cli[i].sessionKey = srv[i].core.SessionSecret
            /\ (srv[i].finreq = cli[i].ke3 => srv[i].fin = "")

\* an honest login under a custom client identity has been accepted by the server
C2_Witness ==
    /\ HonestRun(1)
    /\ reg.creds.idu # Nil
    /\ srv[1].finreq = cli[1].ke3
    /\ srv[1].fin = ""
    /\ cli[1].sessionKey # Nil

\* C3: with a password other than the registered one, AuthenticationFinalize on
\* the server's KE2 fails with the credential-recovery error and returns neither
\* a KE3 nor an export key, and the server accepts no KE3 for that KE2.
C3_WrongPassword ==
    \A i \in live :
        (reg.phase = "stored" /\ cli[i].phase # "idle" /\ cli[i].pw # reg.pw) =>
            /\ (cli[i].phase = "finalized" /\ cli[i].given # "truncated") =>
                    /\ cli[i].err = ErrCredentialRecovery
                    /\ cli[i].ke3 = Nil
                    /\ cli[i].exportKey = Nil
            /\ cli[i].ke3 = Nil
            /\ srv[i].ke2 # <<>> => srv[i].fin # ""

\* a wrong-password login failed on the server's KE2 and a KE3 was then refused
C3_Witness ==
    /\ reg.phase = "stored"
    /\ cli[1].phase = "finalized"
    /\ cli[1].pw # reg.pw
    /\ cli[1].given = "genuine"
    /\ cli[1].err = ErrCredentialRecovery
    /\ srv[1].fin = ErrAkeInvalidClientMac

\* C4 as claimed: the server session state holds a session key only when
\* ServerFinalize has accepted the client's KE3.
C4_Original ==
    \A i \in live :
        srv[i].core.SessionSecret # Nil => srv[i].fin = ""

\* C5 as claimed: once an operation has returned an error on a session state, no
\* later ServerFinalize or AuthenticationFinalize on it returns success.
C5_Original ==
    \A i \in live : ~srv[i].okAfterFail /\ ~cli[i].okAfterFail

----------------------------------------------------------------------------
(* SpecSchedule: Core.DeriveKeys run twice, each run on its own inputs *)

Runs == {"a", "b"}
ScheduleIkms ==
    { Concatenate(<<ElementBytes(1), ElementBytes(2), ElementBytes(3)>>),
      Concatenate(<<ElementBytes(4), ElementBytes(2), ElementBytes(1)>>) }
ScheduleInputs ==
    [ ikm : ScheduleIkms,
      nonceU : {Nonce(1), Nonce(2)},
      nonceS : {Nonce(11), Nonce(12)},
      idU : {Str("alice"), Str("bob")},
      idS : {Str("server"), Str("other")},
      core : {<<>>} ]

InitSchedule ==
    /\ conf = DefaultConfiguration
    /\ step = "init"
    /\ verr = ""
    /\ ip = toInternal(conf)[1]
    /\ encoded = <<>>
    /\ dconf = <<>>
    /\ dcerr = ""
    /\ input = <<>>
    /\ dmsg = <<>>
    /\ derr = ""
    /\ AkeIdle
    /\ sched \in [Runs -> ScheduleInputs]
    /\ dkey = <<>>
    /\ ident = <<>>

\* core.DeriveKeys(m, tag3DH, nonceU, nonceS, ikm) on a new Core, for run r
ScheduleKeys(r) ==
    /\ sched[r].core = <<>>
    /\ sched' = [sched EXCEPT ![r].core =
                    << DeriveKeys(NewCore,
                                  [NewMetadata EXCEPT !.IDu = sched[r].idU,
                                                      !.IDs = sched[r].idS,
                                                      !.KeyLen = AesGcmKeyLength],
                                  tag3DH, sched[r].nonceU, sched[r].nonceS,
                                  sched[r].ikm) >>]
    /\ UNCHANGED <<confVars, deserVars, akeVars, dkey, ident>>

NextSchedule == \E r \in Runs : ScheduleKeys(r)

SpecSchedule == InitSchedule /\ [][NextSchedule]_vars

----------------------------------------------------------------------------
(* Claims on the key schedule (SpecSchedule) *)

\* the info string a key was expanded over
InfoOf(key) == key[3]

\* the transcript context of a run
ContextOf(run) == <<run.nonceU, run.nonceS, run.idU, run.idS>>

\* C11 as claimed: for a fixed IKM, two runs of DeriveKeys whose transcript
\* context differs feed different info strings to HKDF-Expand for the session
\* key and for the MAC keys.
C11_Original ==
    ( /\ sched["a"].core # <<>>
      /\ sched["b"].core # <<>>
      /\ sched["a"].ikm = sched["b"].ikm
      /\ ContextOf(sched["a"]) # ContextOf(sched["b"]) ) =>
        /\ InfoOf(sched["a"].core[1].SessionSecret) # InfoOf(sched["b"].core[1].SessionSecret)
        /\ InfoOf(sched["a"].core[1].Km2) # InfoOf(sched["b"].core[1].Km2)
        /\ InfoOf(sched["a"].core[1].Km3) # InfoOf(sched["b"].core[1].Km3)

----------------------------------------------------------------------------
(* SpecDeriveKey: one call of Ciphersuite.DeriveKey, one loop iteration a step *)

\* the values of a uint8
Uint8 == 256

\* The hash of the derivation input, by the first counter byte for which it is
\* not the zero scalar; Uint8 when it is zero for every counter byte.
FirstNonZero == {0, 1, 2, Uint8 - 1, Uint8}

\* Group.HashToScalar(deriveInput || counter): 0 is the zero scalar
HashToScalarOf(first, counter) == IF counter >= first THEN 1 ELSE 0

\* s == nil
NilScalar == -1

InitDeriveKey ==
    /\ conf = DefaultConfiguration
    /\ step = "init"
    /\ verr = ""
    /\ ip = toInternal(conf)[1]
    /\ encoded = <<>>
    /\ dconf = <<>>
    /\ dcerr = ""
    /\ input = <<>>
    /\ dmsg = <<>>
    /\ derr = ""
    /\ AkeIdle
    /\ sched = <<>>
    /\ dkey \in { [ first |-> f, counter |-> 0, s |-> NilScalar, tries |-> 0,
                    used |-> {}, reused |-> FALSE, status |-> "loop" ] :
                  f \in FirstNonZero }
    /\ ident = <<>>

\* one pass of `for s == nil || s.IsZero()`: the test of the counter, the hash,
\* the increment of the uint8 counter, and the test of the loop
DeriveKeyTry ==
    /\ dkey.status = "loop"
    /\ dkey.tries < MaxTries
    /\ IF dkey.counter > 255
       THEN dkey' = [dkey EXCEPT !.status = "panic"]
       ELSE LET Hashed(sc) ==
                    dkey' = [dkey EXCEPT !.s = sc,
                                         !.counter = (@ + 1) % Uint8,
                                         !.tries = @ + 1,
                                         !.used = @ \cup {dkey.counter},
                                         !.reused = @ \/ dkey.counter \in dkey.used,
                                         !.status = IF sc = 0 THEN "loop" ELSE "returned"]
            IN  Hashed(HashToScalarOf(dkey.first, dkey.counter))
    /\ UNCHANGED <<confVars, deserVars, akeVars, sched, ident>>

NextDeriveKey == DeriveKeyTry

SpecDeriveKey == InitDeriveKey /\ [][NextDeriveKey]_vars

----------------------------------------------------------------------------
(* Claims on DeriveKey (SpecDeriveKey) *)

\* C12 as claimed: DeriveKey tries the counter bytes 0, 1, 2, ... in turn,
\* returns the first non-zero scalar and never a zero one, never uses a counter
\* value twice, and has panicked rather than try again once every counter
\* byte has given the zero scalar.
C12_Original ==
    /\ dkey.status = "returned" =>
          /\ dkey.s # 0
          /\ dkey.tries = dkey.first + 1
    /\ ~dkey.reused
    /\ dkey.tries <= Uint8

----------------------------------------------------------------------------
(* SpecIdentities: the identities of one login, as Metadata.Fill and as *)
(* Client.AuthenticationFinalize choose them                             *)

\* an empty, non-nil byte string
Empty == Str("")

\* The identities supplied to both parties, and the public keys. Credentials of
\* the Base mode carry no identities.
IdentityInputs ==
    { [ mode |-> md, idu |-> iu, ids |-> is, pkc |-> ElementBytes(kc),
        pks |-> ElementBytes(ks), server |-> <<>>, client |-> <<>> ] :
      md \in {"Base", "CustomIdentifier"},
      iu \in {Nil, Empty, Str("alice")},
      is \in {Nil, Empty, Str("server")},
      kc \in {1, 3},
      ks \in {2, 4} }

InitIdentities ==
    /\ conf = DefaultConfiguration
    /\ step = "init"
    /\ verr = ""
    /\ ip = toInternal(conf)[1]
    /\ encoded = <<>>
    /\ dconf = <<>>
    /\ dcerr = ""
    /\ input = <<>>
    /\ dmsg = <<>>
    /\ derr = ""
    /\ AkeIdle
    /\ sched = <<>>
    /\ dkey = <<>>
    /\ ident \in {x \in IdentityInputs : x.mode = "Base" => (x.idu = Nil /\ x.ids = Nil)}

\* m.Fill(creds, cresp, pku, enc) on a new Metadata
FillIdentities ==
    /\ ident.server = <<>>
    /\ ident' = [ident EXCEPT !.server =
                    << Fill(NewMetadata,
                            [mode |-> ident.mode, idu |-> ident.idu, ids |-> ident.ids,
                             pks |-> ident.pks],
                            Nil, ident.pkc) >>]
    /\ UNCHANGED <<confVars, deserVars, akeVars, sched, dkey>>

\* the defaults of Client.AuthenticationFinalize(idc, ids, ke2)
DefaultIdentities ==
    /\ ident.client = <<>>
    /\ ident' = [ident EXCEPT !.client =
                    << ClientIdentities(ident.idu, ident.ids, ident.pkc, ident.pks) >>]
    /\ UNCHANGED <<confVars, deserVars, akeVars, sched, dkey>>

NextIdentities == FillIdentities \/ DefaultIdentities

SpecIdentities == InitIdentities /\ [][NextIdentities]_vars

----------------------------------------------------------------------------
(* Claims on the identities (SpecIdentities) *)

\* an identity is supplied and not empty
Supplied(id) == id # Nil /\ id # Empty

\* the identity a party is to be known by
IdentityOr(id, pk) == IF Supplied(id) THEN id ELSE pk

\* C13 as claimed: Metadata.Fill and Client.AuthenticationFinalize bind, for
\* each party, the supplied identity when it is supplied and not empty, and the
\* party's public key when it is absent or empty; given the same supplied
\* identities both end with the same pair.
C13_Original ==
    /\ ident.server # <<>> =>
          /\ ident.server[1].IDu = IdentityOr(ident.idu, ident.pkc)
          /\ ident.server[1].IDs = IdentityOr(ident.ids, ident.pks)
    /\ ident.client # <<>> =>
          /\ ident.client[1].Idc = IdentityOr(ident.idu, ident.pkc)
          /\ ident.client[1].Ids = IdentityOr(ident.ids, ident.pks)
    /\ (ident.server # <<>> /\ ident.client # <<>>) =>
          /\ ident.server[1].IDu = ident.client[1].Idc
          /\ ident.server[1].IDs = ident.client[1].Ids

----------------------------------------------------------------------------
(* Claims on the server's states (SpecAke) *)

\* C14 as claimed: ServerFinalize returns success only on a session state on
\* which the last Response returned a KE2; where Response has not run, or
\* returned an error, it rejects every KE3.
C14_Original ==
    \A i \in live :
        srv[i].fin = "" => srv[i].finOn = ""

====
